---- MODULE Spec2Model ----
(***************************************************************************)
(* Cellframe-navigator: the confirmation monitor (watcher/tx_monitor.py),  *)
(* the transaction repository it writes through (data/repositories.py),    *)
(* the /track handler that writes the same records (bot/handlers.py), the  *)
(* EVM status tracker (watcher/evm_tracker.py) and the RPC manager with    *)
(* retry, failover and circuit breaker (watcher/rpc_manager.py).           *)
(***************************************************************************)
EXTENDS Integers, Sequences, FiniteSets, TLC

VARIABLES
    db,           \* committed rows of table transactions, by hash
    created,      \* hashes in order of creation (created_at ascending)
    trackers,     \* chains TransactionMonitor.__init__ built a tracker for
    redisOn,      \* TransactionMonitor.redis is not None
    redis,        \* keys set in Redis: <<hash, user_id>> of notified:{hash}:{user}:confirmed
    pcMon,        \* "idle" (sleeping between ticks) or "checking" (inside a tick)
    pending_txs,  \* the list _check_pending_transactions fetched at tick start
    idx,          \* position of the for loop in pending_txs
    sess,         \* the tick's session: the rows list_pending loaded, as mutated so far
    dirty,        \* the tick's session: the attributes of each row changed so far
    sent,         \* every rate_limiter.send_message_safe call, in order
    obs,          \* every update the monitor made: <<hash, confirmations stored>>
    unchained,    \* hashes some monitor update of which did not find stored what the
                  \* monitor's previous update of the hash had stored (0 before the first)
    reverted,     \* hashes a monitor check of which got a status whose receipt says the
                  \* execution failed (success False, error "Transaction failed (reverted)")
    errors,       \* what the monitor logged: checking, an "Error checking transaction"
                  \* in the tick in progress; monitor, an "Error in transaction monitor";
                  \* dedup, a "Failed to send confirmation notification" for a Redis call
    nodes,        \* RPCManager.nodes: failures and last_failure of each endpoint
    now,          \* time.time()
    call,         \* the call_with_retry in progress, or its outcome
    query,        \* a status query to a tracker: its RPC reads and the status returned
    wpc,          \* PollingScheduler: where each watcher's _run_watcher task is
    batch,        \* the events of each watcher's current tick not yet enqueued
    collected,    \* the latest collect(): the watcher, what its two polls did, the result
    mainpc,       \* watcher/main.py: main() awaiting scheduler.run(), or over
    blocked,      \* the watcher whose synchronous call holds the thread of the event
                  \* loop, "none" when the loop is free to run any task
    ledger,       \* CF-20 node: the number of transactions in its history (hashes 1..ledger)
    seen_tx_hashes, \* CF20Watcher._seen_tx_hashes
    emitted,      \* the hashes of the 'transaction' events CF20Watcher returned, in order
    shared,       \* the endpoint of an RPCManager two tasks call: failures, last_failure
    callers,      \* where each task's call_with_retry is on that manager
    clock,        \* time.time() of the process of the two tasks
    exhausted,    \* _record_failure calls on the endpoint since the last _record_success
    probe,        \* the task whose availability check found the cooldown over, until
                  \* its call is over; "none" otherwise
    ltime,        \* time.time() of the bot, in ninths of a second
    global_limit, \* TelegramRateLimiter.global_limit: tokens (in ninths), last_call
    user_limit,   \* TelegramRateLimiter.user_limits[u]: tokens (in tenths), last_call
    lpc,          \* acquire(user_id=u): not running, or in the sleep of a bucket
    lwake,        \* when the asyncio.sleep of _wait_for_token is over
    last_grant,   \* when acquire(user_id=u) last returned, 0 before the first return
    gap,          \* the time between the last two returns of acquire(user_id=u)
    current_block, \* BSC node: the height of its chain (web3.eth.block_number)
    last_block,   \* BSCWatcher._last_block
    fetched       \* the blocks a get_block of the watcher returned, their matching
                  \* transactions turned into events

monVars == <<db, created, trackers, redisOn, redis, pcMon, pending_txs, idx, sess, dirty, sent, obs, unchained,
            reverted, errors>>
rpcVars == <<nodes, now, call>>
trkVars == <<query>>
schVars == <<wpc, batch, collected, mainpc, blocked>>
curVars == <<ledger, seen_tx_hashes, emitted>>
pairVars == <<shared, callers, clock, exhausted, probe>>
limVars == <<ltime, global_limit, user_limit, lpc, lwake, last_grant, gap>>
bscVars == <<current_block, last_block, fetched>>
extVars == <<curVars, pairVars, limVars, bscVars>>
vars == <<db, created, trackers, redisOn, redis, pcMon, pending_txs, idx, sess, dirty, sent, obs, unchained,
          reverted, errors, nodes, now, call, query, wpc, batch, collected, mainpc,
          blocked, ledger, seen_tx_hashes, emitted, shared, callers, clock, exhausted,
          probe, ltime, global_limit, user_limit, lpc, lwake, last_grant, gap,
          current_block, last_block, fetched>>

-----------------------------------------------------------------------------
(* Bounds of the model *)

\* monitor updates recorded (and allowed) in one behaviour
MaxObs == 4
\* block in which a mined transaction sits
TxBlock == 2
\* the clock stops here
MaxTime == 15

\* the cache of seen hashes is cut to this many (5000 in the code)
SeenKeep == 2

\* the transactions one tx_history(limit=...) call returns (50 in the code)
TxWindow == 2

\* the transactions the CF-20 node comes to hold
MaxLedger == 7

\* the clock of the two concurrent callers stops here
MaxClock == 7

\* the clock of the rate limiter stops here, in ninths of a second
MaxTicks == 30

\* the BSC chain grows to this height
MaxHeight == 7

\* the blocks behind the head a poll of the BSC watcher goes back (100 in the code)
ScanWindow == 2

-----------------------------------------------------------------------------
(* Small helpers *)

Range(s) == {s[i] : i \in 1..Len(s)}

Max(a, b) == IF a >= b THEN a ELSE b

Min(a, b) == IF a <= b THEN a ELSE b

-----------------------------------------------------------------------------
(* The transaction table and the repository *)

\* h1 is an Ethereum transaction, h2 and h3 are BSC ones
Hashes == {"h1", "h2", "h3"}

\* the hash users send to /track where one record is followed
Followed == {"h1"}

Users == {"u1"}

\* the chain a hash lives on: an EVM hash is found by one chain's node only
HomeChain(h) == IF h = "h1" THEN "ethereum" ELSE "bsc"

\* confirmations_required chosen by /track for the detected chain
ConfRequired(chain) == IF chain = "ethereum" THEN 12 ELSE 15

\* None of an Optional[int]; 0 is as falsy as None in `if block_number:`
None == 0

\* status argument left at its default None
NoStatus == "none"

NoRow == [tracked |-> FALSE, chain |-> "", owner |-> "", confirmations |-> 0,
          confirmations_required |-> 0, status |-> "", confirmed |-> FALSE,
          block_number |-> None]

\* TransactionRepository.create
create(owner, chain, conf_required) ==
    [tracked |-> TRUE, chain |-> chain, owner |-> owner, confirmations |-> 0,
     confirmations_required |-> conf_required, status |-> "pending",
     confirmed |-> FALSE, block_number |-> None]

\* TransactionRepository.update_status, applied to the row the select returned
update_status(tx, confirmations, block_number, status) ==
    LET t1 == [tx EXCEPT !.confirmations = confirmations]
        t2 == IF block_number # None THEN [t1 EXCEPT !.block_number = block_number] ELSE t1
        t3 == IF status # NoStatus THEN [t2 EXCEPT !.status = status] ELSE t2
    IN  IF confirmations >= tx.confirmations_required
        THEN [t3 EXCEPT !.confirmed = TRUE, !.status = "confirmed"]
        ELSE t3

Reverse(s) == [i \in 1..Len(s) |-> s[Len(s) + 1 - i]]

\* limit=100 of list_pending, scaled to the three records of the model: the list
\* holds one record less than there can be
ListLimit == 2

\* list_pending selecting on the status column instead of the confirmed flag
list_pending_by_status(d, order) ==
    LET IsPending(h) == d[h].status # "confirmed"
        all == Reverse(SelectSeq(order, IsPending))
    IN  SubSeq(all, 1, Min(Len(all), ListLimit))

\* TransactionRepository.list_pending: confirmed == False, newest first, limited
list_pending(d, order) ==
    LET IsPending(h) == d[h].confirmed = FALSE
        all == Reverse(SelectSeq(order, IsPending))
    IN  SubSeq(all, 1, Min(Len(all), ListLimit))

\* the attributes of a loaded row an update changed: the unit of work writes these
ChangedColumns(ld, ob) ==
    {c \in {"confirmations", "block_number", "status", "confirmed"} : ob[c] # ld[c]}

\* a commit that writes nothing of the tick's updates
FlushRolledBack(row, ob, cols) == row

\* a commit that writes every column of the session's object, changed or not
FlushWholeRow(row, ob, cols) == ob

\* what session.commit() makes of a committed row: the UPDATE sets the changed
\* attributes of the session's object and leaves the other columns alone
Flush(row, ob, cols) ==
    [row EXCEPT
        !.confirmations = IF "confirmations" \in cols THEN ob.confirmations ELSE @,
        !.block_number = IF "block_number" \in cols THEN ob.block_number ELSE @,
        !.status = IF "status" \in cols THEN ob.status ELSE @,
        !.confirmed = IF "confirmed" \in cols THEN ob.confirmed ELSE @]

-----------------------------------------------------------------------------
(* The EVM tracker *)

\* what web3.eth.get_transaction answers: it raises, or the transaction has no
\* blockNumber yet, or it is mined (in block TxBlock)
Lookups == {"error", "pending", "mined"}

\* web3.eth.block_number raised
HeadFail == -1

\* heights a node may report: behind the transaction's block by two or by one, and
\* 3, 6 and 12 confirmations after it
Heads == {TxBlock - 2, TxBlock - 1, TxBlock + 2, TxBlock + 5, TxBlock + 11}

\* eth_getTransactionReceipt: no receipt, the call raised, status 1, status 0
Receipts == {"none", "error", "ok", "reverted"}

\* a count of confirmations without the max(0, ...)
confirmations_unclamped(refetch, head) == head - TxBlock + 1

\* EVMTransactionTracker.get_transaction_confirmations
get_transaction_confirmations(refetch, head) ==
    IF refetch = "error" THEN 0
    ELSE IF refetch = "pending" THEN 0
    ELSE IF head = HeadFail THEN 0
    ELSE Max(0, head - TxBlock + 1)

\* EVMTransactionTracker.get_transaction_status
get_transaction_status(lookup, refetch, head, receipt, required) ==
    LET status == [exists |-> FALSE, pending |-> FALSE, confirmed |-> FALSE,
                   success |-> FALSE, confirmations |-> 0, block_number |-> None,
                   error |-> "none"]
        confirmations == get_transaction_confirmations(refetch, head)
    IN  IF lookup = "error" THEN [status EXCEPT !.error = "exception"]
        ELSE IF lookup = "pending" THEN [status EXCEPT !.exists = TRUE, !.pending = TRUE]
        ELSE [status EXCEPT
                !.exists = TRUE,
                !.block_number = TxBlock,
                !.confirmations = confirmations,
                !.confirmed = confirmations >= required,
                !.success = (receipt = "ok"),
                !.error = IF receipt = "reverted" THEN "reverted" ELSE "none"]

\* every status the tracker of a chain can return for one call
TrackerResults(required) ==
    {get_transaction_status(lookup, refetch, head, receipt, required) :
        lookup \in Lookups, refetch \in {"error", "mined"},
        head \in Heads \cup {HeadFail}, receipt \in Receipts}

\* the keys of a status that _check_transaction and cmd_track read with .get(),
\* and whether the status says the execution failed, which neither reads
Seen(tx_info) ==
    [exists |-> tx_info.exists, confirmations |-> tx_info.confirmations,
     block_number |-> tx_info.block_number, confirmed |-> tx_info.confirmed,
     reverted |-> tx_info.error = "reverted"]

StatusReads(required) == {Seen(tx_info) : tx_info \in TrackerResults(required)}

\* EVMTransactionTracker(web3_eth, confirmations_required=12)
StatusReadsEthereum == StatusReads(12)

\* EVMTransactionTracker(web3_bsc, confirmations_required=15)
StatusReadsBsc == StatusReads(15)

\* what the tracker of a chain can report for one call
TrackerReads(chain) == IF chain = "ethereum" THEN StatusReadsEthereum ELSE StatusReadsBsc

-----------------------------------------------------------------------------
(* Notifications *)

\* send_message_safe returns (a message or None), or its retry raises
SendOutcomes == {"returned", "raised"}

\* progress_percent of _send_progress_notification
progress_percent(confirmations, required) == (confirmations * 100) \div required

Notification(h, tx, kind, confirmations) ==
    [hash |-> h, user |-> tx.owner, kind |-> kind, confirmations |-> confirmations,
     percent |-> progress_percent(confirmations, tx.confirmations_required)]

\* self.redis.get raises, or self.redis.setex raises (Redis unreachable)
DedupOutcomes == {"get_raised", "setex_raised"}

\* TransactionMonitor._send_confirmation_notification on the notification state
\* ns = [redis, sent]; rOn: self.redis is set. Whatever raises inside is caught by
\* the except of line 200: a get that raises ends the function before the send, a
\* send or a setex that raises leaves the key unset
send_confirmation_notification(rOn, ns, h, tx, confirmations, outcome) ==
    LET notification_key == <<h, tx.owner>>
    IN  IF rOn /\ outcome = "get_raised"
        THEN ns
        ELSE IF rOn /\ notification_key \in ns.redis
        THEN ns
        ELSE [sent |-> Append(ns.sent, Notification(h, tx, "confirmed", confirmations)),
              redis |-> IF rOn /\ outcome = "returned"
                        THEN ns.redis \cup {notification_key}
                        ELSE ns.redis]

\* a call of self.redis raised in _send_confirmation_notification and the except of
\* line 200 logged it: the get, or the setex the function reaches after its send
redis_raised(rOn, keys, h, tx, outcome) ==
    /\ rOn
    /\ \/ outcome = "get_raised"
       \/ outcome = "setex_raised" /\ <<h, tx.owner>> \notin keys

\* TransactionMonitor._send_progress_notification
send_progress_notification(ns, h, tx, confirmations) ==
    [ns EXCEPT !.sent = Append(@, Notification(h, tx, "progress", confirmations))]

\* the confirmations at which _check_transaction sends a progress update
ProgressMilestones == {3, 6, 9}

\* the ways the delivery an update asks for can end (one where it asks for none)
Outcomes(tx, old_confirmations, confirmations) ==
    IF confirmations >= tx.confirmations_required
       /\ old_confirmations < tx.confirmations_required
    THEN SendOutcomes \cup DedupOutcomes
    ELSE {"returned"}

\* the crossing test written with > where the code has >=
notify_off_by_one(rOn, ns, h, tx, old_confirmations, confirmations, outcome) ==
    IF confirmations > tx.confirmations_required
       /\ old_confirmations < tx.confirmations_required
    THEN send_confirmation_notification(rOn, ns, h, tx, confirmations, outcome)
    ELSE IF confirmations > old_confirmations /\ confirmations \in ProgressMilestones
    THEN send_progress_notification(ns, h, tx, confirmations)
    ELSE ns

\* lines 136-143 of _check_transaction: which notification the update asks for
notify(rOn, ns, h, tx, old_confirmations, confirmations, outcome) ==
    IF confirmations >= tx.confirmations_required
       /\ old_confirmations < tx.confirmations_required
    THEN send_confirmation_notification(rOn, ns, h, tx, confirmations, outcome)
    ELSE IF confirmations > old_confirmations /\ confirmations \in ProgressMilestones
    THEN send_progress_notification(ns, h, tx, confirmations)
    ELSE ns

-----------------------------------------------------------------------------
(* The confirmation monitor and the /track handler *)

\* the except of _check_transaction ending the for loop instead of the item
abort_after_error(i, n) == n + 1

\* where the for loop of _check_pending_transactions stands after _check_transaction
\* caught an exception for item i of n: the except returns, the loop takes the next
next_after_error(i, n) == i + 1

\* where start() is after its except caught a tick's exception: asleep, then the
\* while loop runs the next tick
start_after_error == "idle"

\* the confirmations the monitor's latest update of h stored, 0 when there is none
LastStored(o, h) ==
    LET mine == SelectSeq(o, LAMBDA e : e[1] = h)
    IN  IF mine = <<>> THEN 0 ELSE mine[Len(mine)][2]

NoSession == [h \in Hashes |-> NoRow]

NoDirty == [h \in Hashes |-> {}]

NoErrors == [checking |-> FALSE, monitor |-> FALSE, dedup |-> FALSE]

InitMonitor ==
    /\ db = [h \in Hashes |-> NoRow]
    /\ created = <<>>
    /\ trackers = {"ethereum"}
    /\ redisOn \in BOOLEAN
    /\ redis = {}
    /\ pcMon = "idle"
    /\ pending_txs = <<>>
    /\ idx = 1
    /\ sess = NoSession
    /\ dirty = NoDirty
    /\ sent = <<>>
    /\ obs = <<>>
    /\ unchained = {}
    /\ reverted = {}
    /\ errors = NoErrors

\* cmd_track, from the lookup on: the hash is looked up on its chain; when found the
\* record is created if missing and always updated with the status just read
Track(h, u) ==
    /\ \E tx_info \in TrackerReads(HomeChain(h)) :
        /\ tx_info.exists
        /\ LET existing_tx == db[h]
               tx == IF existing_tx.tracked THEN existing_tx
                     ELSE create(u, HomeChain(h), ConfRequired(HomeChain(h)))
           IN  /\ db' = [db EXCEPT ![h] =
                            update_status(tx, tx_info.confirmations, tx_info.block_number,
                                          IF tx_info.confirmed THEN "confirmed" ELSE "pending")]
               /\ created' = IF existing_tx.tracked THEN created ELSE Append(created, h)
    /\ UNCHANGED <<trackers, redisOn, redis, pcMon, pending_txs, idx, sess, dirty, sent, obs, unchained,
                    reverted, errors>>
    /\ UNCHANGED <<rpcVars, trkVars, schVars, extVars>>

\* _check_pending_transactions, up to the for loop: open a session and list_pending
TickStart ==
    /\ pcMon = "idle"
    /\ pcMon' = "checking"
    /\ pending_txs' = list_pending(db, created)
    /\ idx' = 1
    /\ sess' = [h \in Hashes |-> IF h \in Range(pending_txs') THEN db[h] ELSE NoRow]
    /\ dirty' = NoDirty
    /\ errors' = [errors EXCEPT !.checking = FALSE]
    /\ UNCHANGED <<db, created, trackers, redisOn, redis, sent, obs, unchained, reverted>>
    /\ UNCHANGED <<rpcVars, trkVars, schVars, extVars>>

\* _check_transaction for the next record of the list
CheckTransaction ==
    /\ pcMon = "checking"
    /\ idx <= Len(pending_txs)
    /\ idx' = idx + 1
    /\ LET h == pending_txs[idx]
           tx == sess[h]
       IN  IF tx.chain \notin trackers
           THEN UNCHANGED <<sess, dirty, redis, sent, obs, unchained, reverted, errors>>
           ELSE \E tx_info \in TrackerReads(tx.chain) :
                IF ~tx_info.exists
                THEN UNCHANGED <<sess, dirty, redis, sent, obs, unchained, reverted, errors>>
                ELSE LET confirmations == tx_info.confirmations
                         old_confirmations == tx.confirmations
                         updated == update_status(tx, confirmations, tx_info.block_number, NoStatus)
                     IN  /\ Len(obs) < MaxObs
                         /\ sess' = [sess EXCEPT ![h] = updated]
                         /\ dirty' = [dirty EXCEPT ![h] = ChangedColumns(tx, updated)]
                         /\ \E outcome \in Outcomes(updated, old_confirmations, confirmations) :
                              LET ns == notify(redisOn, [redis |-> redis, sent |-> sent], h,
                                               updated, old_confirmations, confirmations, outcome)
                              IN  /\ redis' = ns.redis
                                  /\ sent' = ns.sent
                                  /\ errors' = IF redis_raised(redisOn, redis, h, updated,
                                                               outcome)
                                               THEN [errors EXCEPT !.dedup = TRUE]
                                               ELSE errors
                         /\ obs' = Append(obs, <<h, confirmations>>)
                         /\ unchained' = IF old_confirmations = LastStored(obs, h)
                                         THEN unchained ELSE unchained \cup {h}
                         /\ reverted' = IF tx_info.reverted
                                        THEN reverted \cup {h} ELSE reverted
    /\ UNCHANGED <<db, created, trackers, redisOn, pcMon, pending_txs>>
    /\ UNCHANGED <<rpcVars, trkVars, schVars, extVars>>

\* the end of _check_pending_transactions: session.commit(), then start() sleeps
TickCommit ==
    /\ pcMon = "checking"
    /\ idx > Len(pending_txs)
    /\ db' = [h \in Hashes |->
                IF h \in Range(pending_txs) THEN Flush(db[h], sess[h], dirty[h]) ELSE db[h]]
    /\ pcMon' = "idle"
    /\ pending_txs' = <<>>
    /\ idx' = 1
    /\ sess' = NoSession
    /\ dirty' = NoDirty
    /\ errors' = [errors EXCEPT !.checking = FALSE]
    /\ UNCHANGED <<created, trackers, redisOn, redis, sent, obs, unchained, reverted>>
    /\ UNCHANGED <<rpcVars, trkVars, schVars, extVars>>

\* _check_transaction for the next record of the list raising inside its try (the
\* select of update_status fails, say): line 145 catches and logs it, the session
\* is as it was, and the for loop goes on
CheckTransactionFails ==
    /\ pcMon = "checking"
    /\ idx <= Len(pending_txs)
    /\ sess[pending_txs[idx]].chain \in trackers
    /\ idx' = next_after_error(idx, Len(pending_txs))
    /\ errors' = [errors EXCEPT !.checking = TRUE]
    /\ UNCHANGED <<db, created, trackers, redisOn, redis, pcMon, pending_txs, sess, dirty, sent, obs,
                    unchained, reverted>>
    /\ UNCHANGED <<rpcVars, trkVars, schVars, extVars>>

\* an exception escapes _check_pending_transactions (session.commit() raises): the
\* session is gone uncommitted, start() logs the error at line 80 and sleeps
TickRaises ==
    /\ pcMon = "checking"
    /\ idx > Len(pending_txs)
    /\ pcMon' = start_after_error
    /\ pending_txs' = <<>>
    /\ idx' = 1
    /\ sess' = NoSession
    /\ dirty' = NoDirty
    /\ errors' = [errors EXCEPT !.checking = FALSE, !.monitor = TRUE]
    /\ UNCHANGED <<db, created, trackers, redisOn, redis, sent, obs, unchained, reverted>>
    /\ UNCHANGED <<rpcVars, trkVars, schVars, extVars>>

\* the monitor process stops inside a tick and is started again: the tick's session
\* is gone without session.commit(); the table, Redis and the messages already
\* requested stay as they are, and start() begins with a new tick
Restart ==
    /\ pcMon = "checking"
    /\ pcMon' = "idle"
    /\ pending_txs' = <<>>
    /\ idx' = 1
    /\ sess' = NoSession
    /\ dirty' = NoDirty
    /\ errors' = [errors EXCEPT !.checking = FALSE]
    /\ UNCHANGED <<db, created, trackers, redisOn, redis, sent, obs, unchained, reverted>>
    /\ UNCHANGED <<rpcVars, trkVars, schVars, extVars>>

-----------------------------------------------------------------------------
(* The RPC manager: retry, failover, circuit breaker *)

\* the endpoints, named by their position in self.nodes (sorted by priority)
\* three endpoints, as in ETHEREUM_NODES and BSC_NODES
NumNodes == 3

NodeIds == 1..NumNodes

\* RPCManager(max_retries=3): attempts per endpoint and call
max_retries == 3

\* RPCManager(retry_delay=1.0, max_retry_delay=10.0), in seconds
retry_delay == 1

max_retry_delay == 10

\* RPCManager(circuit_breaker_threshold=2, circuit_breaker_timeout=2): the manager is
\* configured with a threshold and a cooldown below the defaults (5 and 60 s)
circuit_breaker_threshold == 2

circuit_breaker_timeout == 2

Pow2(k) == IF k = 0 THEN 1 ELSE IF k = 1 THEN 2 ELSE IF k = 2 THEN 4 ELSE 8

\* a wait that does not grow
backoff_constant(attempt) == retry_delay

\* the delay of line 154, after failed attempt number `attempt`
backoff_delay(attempt) == Min(retry_delay * Pow2(attempt), max_retry_delay)

\* an availability check that lets every endpoint through
always_available(node, t) == [available |-> TRUE, node |-> node, reset |-> FALSE]

\* RPCManager._is_node_available: the answer, and the node as the check leaves it
is_node_available(node, t) ==
    IF node.failures < circuit_breaker_threshold
    THEN [available |-> TRUE, node |-> node, reset |-> FALSE]
    ELSE IF t - node.last_failure > circuit_breaker_timeout
    THEN [available |-> TRUE, node |-> [node EXCEPT !.failures = 0], reset |-> TRUE]
    ELSE [available |-> FALSE, node |-> node, reset |-> FALSE]

\* _record_success leaving the counter as it is
record_success_keep(node) == node

\* RPCManager._record_success
record_success(node) == [node EXCEPT !.failures = 0]

\* _record_failure stamping the time and forgetting the count
record_failure_no_count(node, t) == [node EXCEPT !.last_failure = t]

\* _record_failure counting every failed attempt of the exhausted endpoint
record_failure_per_attempt(node, t) ==
    [node EXCEPT !.failures = @ + max_retries, !.last_failure = t]

\* RPCManager._record_failure
record_failure(node, t) == [node EXCEPT !.failures = @ + 1, !.last_failure = t]

\* the errors shown by the exception of line 167: "Last error: {last_exception}"
all_nodes_failed(last_exception) ==
    IF last_exception = None THEN {} ELSE {last_exception}

\* last_exception: the endpoint the attempt against which raised the exception
\* held, None before any; error: the endpoints whose exception the message of the
\* exception raised at line 167 shows; attempts: the times func ran in this call
NoCall == [pc |-> "idle", node |-> 1, attempt |-> 0, result |-> 0, attempts |-> 0,
           last_exception |-> None, error |-> {},
           log |-> [n \in NodeIds |-> "none"],
           start |-> [n \in NodeIds |-> 0],
           probe |-> [n \in NodeIds |-> FALSE]]

InitRpc ==
    /\ nodes = [n \in NodeIds |-> [failures |-> 0, last_failure |-> 0]]
    /\ now = 0
    /\ call = NoCall

\* call_with_retry is entered
StartCall ==
    /\ call.pc \in {"idle", "returned", "raised"}
    /\ call' = [NoCall EXCEPT !.pc = "consider",
                              !.start = [n \in NodeIds |-> nodes[n].failures]]
    /\ UNCHANGED <<nodes, now>>
    /\ UNCHANGED <<monVars, trkVars, schVars, extVars>>

\* top of the for loop over self.nodes: the availability check of the next endpoint
ConsiderNode ==
    /\ call.pc = "consider"
    /\ call.node <= NumNodes
    /\ LET n == call.node
           chk == is_node_available(nodes[n], now)
       IN  /\ nodes' = [nodes EXCEPT ![n] = chk.node]
           /\ call' = IF chk.available
                      THEN [call EXCEPT !.pc = "attempt", !.attempt = 0,
                                        !.probe[n] = chk.reset]
                      ELSE [call EXCEPT !.node = n + 1, !.log[n] = "skipped"]
    /\ UNCHANGED now
    /\ UNCHANGED <<monVars, trkVars, schVars, extVars>>

\* one pass of the retry loop: func runs against the endpoint and returns or raises
Attempt(ok) ==
    /\ call.pc = "attempt"
    /\ LET n == call.node
       IN  IF ok
           THEN /\ nodes' = [nodes EXCEPT ![n] = record_success(nodes[n])]
                /\ call' = [call EXCEPT !.pc = "returned", !.result = n, !.log[n] = "ok",
                                        !.attempts = @ + 1]
           ELSE IF call.attempt < max_retries - 1
           THEN /\ call' = [call EXCEPT !.pc = "backoff", !.last_exception = n,
                                        !.attempts = @ + 1]
                /\ UNCHANGED nodes
           ELSE /\ nodes' = [nodes EXCEPT ![n] = record_failure(nodes[n], now)]
                /\ call' = [call EXCEPT !.pc = "consider", !.node = n + 1,
                                        !.log[n] = "failed", !.last_exception = n,
                                        !.attempts = @ + 1]
    /\ UNCHANGED now
    /\ UNCHANGED <<monVars, trkVars, schVars, extVars>>

\* a retry loop that does not count its passes
retry_same_attempt(attempt) == attempt

\* for attempt in range(self.max_retries): the number of the pass after this one
next_attempt(attempt) == attempt + 1

\* asyncio.sleep(delay) between two attempts on the same endpoint
Backoff ==
    /\ call.pc = "backoff"
    /\ now + backoff_delay(call.attempt) <= MaxTime
    /\ now' = now + backoff_delay(call.attempt)
    /\ call' = [call EXCEPT !.pc = "attempt", !.attempt = next_attempt(@)]
    /\ UNCHANGED nodes
    /\ UNCHANGED <<monVars, trkVars, schVars, extVars>>

\* the for loop is over: raise "All RPC nodes failed"
AllNodesFailed ==
    /\ call.pc = "consider"
    /\ call.node > NumNodes
    /\ call' = [call EXCEPT !.pc = "raised", !.error = all_nodes_failed(call.last_exception)]
    /\ UNCHANGED <<nodes, now>>
    /\ UNCHANGED <<monVars, trkVars, schVars, extVars>>

\* time passes; an endpoint's cooldown runs only between calls and while func runs
AdvanceTime ==
    /\ now < MaxTime
    /\ call.pc # "backoff"
    /\ now' = now + 1
    /\ UNCHANGED <<nodes, call>>
    /\ UNCHANGED <<monVars, trkVars, schVars, extVars>>

-----------------------------------------------------------------------------
(* Status queries: the EVM tracker and the CF-20 watcher over their RPC reads *)

\* what the mempool_check RPC does: it raises, or says in or not in the mempool
MempoolReads == {"raised", "in", "out"}

\* what the tx_history RPC does for one hash: it raises, returns nothing, or returns
\* the transaction with this status field
HistoryReads == {"raised", "empty", "accepted", "confirmed", "declined", "error", "failed",
                 "unknown"}

\* CF20RPCClient.mempool_check
mempool_check(read) == read = "in"

\* CF20RPCClient.tx_history(tx_hash=...)
tx_history(read) ==
    IF read \in {"raised", "empty"} THEN <<>> ELSE <<[status |-> read]>>

\* CF20Watcher.check_transaction_status
check_transaction_status(mempool, history) ==
    LET status == [exists |-> FALSE, pending |-> FALSE, confirmed |-> FALSE,
                   error |-> "none"]
        in_mempool == mempool_check(mempool)
        txs == tx_history(history)
    IN  IF in_mempool THEN [status EXCEPT !.exists = TRUE, !.pending = TRUE]
        ELSE IF txs # <<>>
        THEN LET tx_status == txs[1].status
             IN  IF tx_status \in {"accepted", "confirmed"}
                 THEN [status EXCEPT !.exists = TRUE, !.confirmed = TRUE]
                 ELSE IF tx_status \in {"declined", "error", "failed"}
                 THEN [status EXCEPT !.exists = TRUE, !.error = "declined"]
                 ELSE [status EXCEPT !.exists = TRUE, !.pending = TRUE]
        ELSE status

\* CF20RPCClient.tx_status: the status string, "none" for None
tx_status(mempool, history) ==
    LET in_mempool == mempool_check(mempool)
        txs == tx_history(history)
    IN  IF in_mempool THEN "pending"
        ELSE IF txs # <<>>
        THEN IF txs[1].status = "accepted" THEN "confirmed"
             ELSE IF txs[1].status = "declined" THEN "error"
             ELSE txs[1].status
        ELSE "none"

\* the status dict before anything is known
NoAnswer == [exists |-> FALSE, pending |-> FALSE, confirmed |-> FALSE, error |-> "none"]

\* word: what CF20RPCClient.tx_status returns for the same reads
NoQuery == [pc |-> "idle", tracker |-> "none", reads |-> [lookup |-> "none"],
            status |-> NoAnswer, word |-> "none"]

InitTracker == query = NoQuery

\* EVMTransactionTracker(web3, 12).get_transaction_status is called; the node will
\* answer its reads this way
EvmStatusCall ==
    /\ query.pc \in {"idle", "returned"}
    /\ \E lookup \in Lookups, refetch \in Lookups, head \in Heads \cup {HeadFail},
          receipt \in Receipts :
            query' = [pc |-> "called", tracker |-> "evm",
                      reads |-> [lookup |-> lookup, refetch |-> refetch, head |-> head,
                                 receipt |-> receipt],
                      status |-> NoAnswer, word |-> "none"]
    /\ UNCHANGED <<monVars, rpcVars, schVars, extVars>>

\* CF20Watcher.check_transaction_status is called
Cf20StatusCall ==
    /\ query.pc \in {"idle", "returned"}
    /\ \E mempool \in MempoolReads, history \in HistoryReads :
            query' = [pc |-> "called", tracker |-> "cf20",
                      reads |-> [mempool |-> mempool, history |-> history],
                      status |-> NoAnswer, word |-> "none"]
    /\ UNCHANGED <<monVars, rpcVars, schVars, extVars>>

\* the status query returns its dict
StatusReturn ==
    /\ query.pc = "called"
    /\ query' = [query EXCEPT
                    !.pc = "returned",
                    !.status = IF query.tracker = "evm"
                               THEN get_transaction_status(query.reads.lookup,
                                        query.reads.refetch, query.reads.head,
                                        query.reads.receipt, 12)
                               ELSE check_transaction_status(query.reads.mempool,
                                        query.reads.history),
                    !.word = IF query.tracker = "evm" THEN "none"
                             ELSE tx_status(query.reads.mempool, query.reads.history)]
    /\ UNCHANGED <<monVars, rpcVars, schVars, extVars>>

-----------------------------------------------------------------------------
(* The chain watchers and the polling scheduler *)

\* the watchers build_scheduler() makes
Watchers == {"ethereum", "bsc", "cf20"}

\* what poll_new_transactions does: it raises, or returns no or one event
NewOutcomes ==
    {[raised |-> TRUE, data |-> <<>>], [raised |-> FALSE, data |-> <<>>],
     [raised |-> FALSE, data |-> <<"transaction">>]}

\* what poll_mempool does
MempoolOutcomes ==
    {[raised |-> TRUE, data |-> <<>>], [raised |-> FALSE, data |-> <<>>],
     [raised |-> FALSE, data |-> <<"mempool">>]}

\* _collect_safe without its except
collect_safe_reraise(out) == out

\* BaseChainWatcher._collect_safe on what func() did
collect_safe(out) ==
    IF out.raised THEN [raised |-> FALSE, data |-> <<>>] ELSE out

\* a collect that puts the mempool events first
collect_mempool_first(new, mem) ==
    [raised |-> FALSE, data |-> collect_safe(mem).data \o collect_safe(new).data]

\* BaseChainWatcher.collect
collect(new, mem) ==
    LET a == collect_safe(new)
        b == collect_safe(mem)
    IN  IF a.raised \/ b.raised
        THEN [raised |-> TRUE, data |-> <<>>]
        ELSE [raised |-> FALSE, data |-> a.data \o b.data]

NoCollect == [watcher |-> "none", new |-> [raised |-> FALSE, data |-> <<>>],
              mem |-> [raised |-> FALSE, data |-> <<>>],
              result |-> [raised |-> FALSE, data |-> <<>>]]

InitScheduler ==
    /\ wpc = [w \in Watchers |-> "collect"]
    /\ batch = [w \in Watchers |-> <<>>]
    /\ collected = NoCollect
    /\ mainpc = "running"
    /\ blocked = "none"

\* the watchers whose poll_new_transactions starts with self.web3.eth.block_number
\* evaluated in the coroutine itself: a property read that does the HTTP request and
\* returns only with the response (bsc.py:62; eth.py:23, as the argument of to_thread)
SyncPollers == {"ethereum", "bsc"}

\* _run_watcher: watcher.collect() is called and the tick's polls begin; the task
\* runs when the loop's thread is free, and a synchronous read keeps the thread
Poll(w) ==
    /\ mainpc = "running"
    /\ wpc[w] = "collect"
    /\ blocked = "none"
    /\ wpc' = [wpc EXCEPT ![w] = "polling"]
    /\ blocked' = IF w \in SyncPollers THEN w ELSE "none"
    /\ UNCHANGED <<batch, collected, mainpc>>
    /\ UNCHANGED <<monVars, rpcVars, trkVars, extVars>>

\* the node answers the synchronous read: the coroutine goes on to its awaits
\* (asyncio.to_thread, httpx) and the thread is the loop's again
RpcReturns(w) ==
    /\ mainpc = "running"
    /\ wpc[w] = "polling"
    /\ blocked = w
    /\ blocked' = "none"
    /\ UNCHANGED <<wpc, batch, collected, mainpc>>
    /\ UNCHANGED <<monVars, rpcVars, trkVars, extVars>>

\* _run_watcher: events = await watcher.collect() has its value
Collect(w) ==
    /\ mainpc = "running"
    /\ wpc[w] = "polling"
    /\ blocked = "none"
    /\ \E new \in NewOutcomes, mem \in MempoolOutcomes :
        LET result == collect(new, mem)
        IN  /\ collected' = [watcher |-> w, new |-> new, mem |-> mem, result |-> result]
            /\ wpc' = [wpc EXCEPT ![w] = IF result.raised THEN "failed" ELSE "publish"]
            /\ batch' = [batch EXCEPT ![w] = result.data]
    /\ UNCHANGED <<mainpc, blocked>>
    /\ UNCHANGED <<monVars, rpcVars, trkVars, extVars>>

\* _run_watcher: enqueue_event(event) is called for the next event: a plain function
\* that connects to Redis and enqueues, on the thread of the loop
Enqueue(w) ==
    /\ mainpc = "running"
    /\ wpc[w] = "publish"
    /\ batch[w] # <<>>
    /\ blocked = "none"
    /\ blocked' = w
    /\ UNCHANGED <<wpc, batch, collected, mainpc>>
    /\ UNCHANGED <<monVars, rpcVars, trkVars, extVars>>

\* enqueue_event is over: it returns, or it raises (Redis.from_url, Queue.enqueue)
\* and the exception leaves _run_watcher
Publish(w, ok) ==
    /\ mainpc = "running"
    /\ wpc[w] = "publish"
    /\ batch[w] # <<>>
    /\ blocked = w
    /\ blocked' = "none"
    /\ IF ok
       THEN /\ batch' = [batch EXCEPT ![w] = Tail(@)]
            /\ UNCHANGED wpc
       ELSE /\ batch' = [batch EXCEPT ![w] = <<>>]
            /\ wpc' = [wpc EXCEPT ![w] = "failed"]
    /\ UNCHANGED <<collected, mainpc>>
    /\ UNCHANGED <<monVars, rpcVars, trkVars, extVars>>

\* _run_watcher: the for loop is over, await asyncio.sleep(watcher.poll_interval)
Sleep(w) ==
    /\ mainpc = "running"
    /\ wpc[w] = "publish"
    /\ batch[w] = <<>>
    /\ blocked = "none"
    /\ wpc' = [wpc EXCEPT ![w] = "sleep"]
    /\ UNCHANGED <<batch, collected, mainpc, blocked>>
    /\ UNCHANGED <<monVars, rpcVars, trkVars, extVars>>

\* the sleep is over and the loop resumes the task: the while loop is at the next tick
Wake(w) ==
    /\ mainpc = "running"
    /\ wpc[w] = "sleep"
    /\ blocked = "none"
    /\ wpc' = [wpc EXCEPT ![w] = "collect"]
    /\ UNCHANGED <<batch, collected, mainpc, blocked>>
    /\ UNCHANGED <<monVars, rpcVars, trkVars, extVars>>

\* a task ended with an exception: asyncio.gather raises it in run(), main() logs
\* "Fatal error in watcher" and re-raises, and asyncio.run() cancels the tasks left
MainRaises ==
    /\ mainpc = "running"
    /\ blocked = "none"
    /\ \E w \in Watchers : wpc[w] = "failed"
    /\ mainpc' = "raised"
    /\ wpc' = [w \in Watchers |-> IF wpc[w] = "failed" THEN "failed" ELSE "cancelled"]
    /\ batch' = [w \in Watchers |-> <<>>]
    /\ UNCHANGED <<collected, blocked>>
    /\ UNCHANGED <<monVars, rpcVars, trkVars, extVars>>

-----------------------------------------------------------------------------
(* The cursor of the CF-20 watcher *)

\* the size over which the cache is cut (10000 in the code: twice what is kept)
SeenCap == 2 * SeenKeep

\* CF20RPCClient.tx_history(limit=TxWindow): the latest transactions, newest first
recent_txs(n) == [i \in 1..Min(n, TxWindow) |-> n + 1 - i]

\* the hashes of a list not in the cache, in the order of the list
Unseen(txs, cache) == SelectSeq(txs, LAMBDA h : h \notin cache)

\* set(list(self._seen_tx_hashes)[-5000:]): the last 5000 of the set in its
\* iteration order, which for a set of str is the order of the hash table (salted
\* per process), not the order of insertion: any SeenKeep of its members
trim(cache) == {s \in SUBSET cache : Cardinality(s) = SeenKeep}

InitCursor ==
    /\ ledger = 0
    /\ seen_tx_hashes = {}
    /\ emitted = <<>>

\* the ledger gets new transactions
NewTransactions ==
    /\ ledger < MaxLedger
    /\ ledger' = ledger + 1
    /\ UNCHANGED <<seen_tx_hashes, emitted>>
    /\ UNCHANGED <<monVars, rpcVars, trkVars, schVars, pairVars, limVars, bscVars>>

\* CF20Watcher.poll_new_transactions
PollNewTransactions ==
    /\ LET new == Unseen(recent_txs(ledger), seen_tx_hashes)
           added == seen_tx_hashes \cup Range(new)
       IN  /\ new # <<>>
           /\ emitted' = emitted \o new
           /\ IF Cardinality(added) > SeenCap
              THEN seen_tx_hashes' \in trim(added)
              ELSE seen_tx_hashes' = added
    /\ UNCHANGED ledger
    /\ UNCHANGED <<monVars, rpcVars, trkVars, schVars, pairVars, limVars, bscVars>>

-----------------------------------------------------------------------------
(* Two tasks calling one RPCManager *)

\* the tasks that share the manager (the monitor's tracker and a /track handler)
Callers == {"a", "b"}

\* a call_with_retry not in progress
NoCaller == [pc |-> "idle", attempt |-> 0, wake |-> 0]

\* the breaker of an endpoint is open: _is_node_available would answer False
is_open(node, t) == ~is_node_available(node, t).available

InitPair ==
    /\ shared = [failures |-> 0, last_failure |-> 0]
    /\ callers = [c \in Callers |-> NoCaller]
    /\ clock = 0
    /\ exhausted = 0
    /\ probe = "none"

\* call_with_retry, lines 119-126, on a manager of one endpoint: the availability
\* check (which may reset the counter) and the first attempt started, no await
\* between the two; a call that finds the endpoint open raises at once
CEnter(c) ==
    /\ callers[c].pc = "idle"
    /\ LET chk == is_node_available(shared, clock)
       IN  /\ chk.available
           /\ shared' = chk.node
           /\ probe' = IF chk.reset THEN c ELSE probe
    /\ callers' = [callers EXCEPT ![c] = [pc |-> "attempt", attempt |-> 0, wake |-> 0]]
    /\ UNCHANGED <<clock, exhausted>>
    /\ UNCHANGED <<monVars, rpcVars, trkVars, schVars, curVars, limVars, bscVars>>

\* the await of line 137 is over: func returned (lines 140-142) or raised (144-163)
CReturn(c, ok) ==
    /\ callers[c].pc = "attempt"
    /\ IF ok
       THEN /\ shared' = record_success(shared)
            /\ exhausted' = 0
            /\ callers' = [callers EXCEPT ![c] = NoCaller]
            /\ probe' = IF probe = c THEN "none" ELSE probe
       ELSE IF callers[c].attempt < max_retries - 1
       THEN /\ callers' = [callers EXCEPT ![c].pc = "sleep",
                                ![c].wake = clock + backoff_delay(callers[c].attempt)]
            /\ UNCHANGED <<shared, exhausted, probe>>
       ELSE /\ shared' = record_failure(shared, clock)
            /\ exhausted' = exhausted + 1
            /\ callers' = [callers EXCEPT ![c] = NoCaller]
            /\ probe' = IF probe = c THEN "none" ELSE probe
    /\ UNCHANGED clock
    /\ UNCHANGED <<monVars, rpcVars, trkVars, schVars, curVars, limVars, bscVars>>

\* asyncio.sleep(delay) of line 160 is over: the next attempt starts
CWake(c) ==
    /\ callers[c].pc = "sleep"
    /\ clock >= callers[c].wake
    /\ callers' = [callers EXCEPT ![c].pc = "attempt",
                        ![c].attempt = next_attempt(callers[c].attempt)]
    /\ UNCHANGED <<shared, clock, exhausted, probe>>
    /\ UNCHANGED <<monVars, rpcVars, trkVars, schVars, curVars, limVars, bscVars>>

\* a second passes; a task whose sleep is over runs first
CTick ==
    /\ clock < MaxClock
    /\ \A c \in Callers : callers[c].pc = "sleep" => callers[c].wake > clock
    /\ clock' = clock + 1
    /\ UNCHANGED <<shared, callers, exhausted, probe>>
    /\ UNCHANGED <<monVars, rpcVars, trkVars, schVars, curVars, limVars, bscVars>>

-----------------------------------------------------------------------------
(* The rate limiter of the bot *)

\* Time is counted in ninths of a second, the tokens of the per-user bucket in
\* tenths and those of the global bucket in ninths: user_rate = 0.9 tokens a
\* second is one tenth a tick, global_rate = 25.0 is 25 ninths a tick, and every
\* quantity of _wait_for_token is a whole number.
Second == 9

\* RateLimit(max_per_second=user_rate, tokens=user_rate): rate is the refill of a
\* tick, one is a token, max is max_per_second tokens
UserBucket == [rate |-> 1, one |-> 10, max |-> 9]

\* RateLimit(max_per_second=global_rate, tokens=global_rate)
GlobalBucket == [rate |-> 25, one |-> 9, max |-> 225]

\* _wait_for_token, lines 63-73: the refill for the time passed since last_call
\* (none on the first call, last_call being 0) and last_call = now
refill(b, limit, t) ==
    [tokens |-> IF limit.last_call > 0
                THEN Min(b.max, limit.tokens + (t - limit.last_call) * b.rate)
                ELSE limit.tokens,
     last_call |-> t]

\* wait_time of line 77, asyncio.sleep lasting no less than asked
wait_time(b, limit) == (b.one - limit.tokens + b.rate - 1) \div b.rate

\* lines 80-83 after the sleep: limit.tokens = 1.0, then one token consumed
after_sleep(b, limit) == [limit EXCEPT !.tokens = b.one - b.one]

\* line 83 with a token available
consume(b, limit) == [limit EXCEPT !.tokens = @ - b.one]

InitLimiter ==
    /\ ltime = 1
    /\ global_limit = [tokens |-> GlobalBucket.max, last_call |-> 0]
    /\ user_limit = [tokens |-> UserBucket.max, last_call |-> 0]
    /\ lpc = "idle"
    /\ lwake = 0
    /\ last_grant = 0
    /\ gap = Second

\* acquire returns: permission to send to the user is granted
Grant ==
    /\ last_grant' = ltime
    /\ gap' = IF last_grant = 0 THEN gap ELSE ltime - last_grant

\* acquire, lines 95-98: _wait_for_token(user_limit) up to its sleep or its end
UserPart ==
    LET limit == refill(UserBucket, user_limit, ltime)
    IN  IF limit.tokens < UserBucket.one
        THEN /\ user_limit' = limit
             /\ lpc' = "user_sleep"
             /\ lwake' = ltime + wait_time(UserBucket, limit)
             /\ UNCHANGED <<last_grant, gap>>
        ELSE /\ user_limit' = consume(UserBucket, limit)
             /\ lpc' = "idle"
             /\ UNCHANGED lwake
             /\ Grant

\* acquire(user_id=u) is called, the lock free: _wait_for_token(global_limit) up
\* to its sleep, or through it and on to the bucket of the user
Acquire ==
    /\ lpc = "idle"
    /\ LET limit == refill(GlobalBucket, global_limit, ltime)
       IN  IF limit.tokens < GlobalBucket.one
           THEN /\ global_limit' = limit
                /\ lpc' = "global_sleep"
                /\ lwake' = ltime + wait_time(GlobalBucket, limit)
                /\ UNCHANGED <<user_limit, last_grant, gap>>
           ELSE /\ global_limit' = consume(GlobalBucket, limit)
                /\ UserPart
    /\ UNCHANGED ltime
    /\ UNCHANGED <<monVars, rpcVars, trkVars, schVars, curVars, pairVars, bscVars>>

\* the sleep on the global bucket is over
GlobalWake ==
    /\ lpc = "global_sleep"
    /\ ltime >= lwake
    /\ global_limit' = after_sleep(GlobalBucket, global_limit)
    /\ UserPart
    /\ UNCHANGED ltime
    /\ UNCHANGED <<monVars, rpcVars, trkVars, schVars, curVars, pairVars, bscVars>>

\* the sleep on the bucket of the user is over: acquire returns
UserWake ==
    /\ lpc = "user_sleep"
    /\ ltime >= lwake
    /\ user_limit' = after_sleep(UserBucket, user_limit)
    /\ lpc' = "idle"
    /\ Grant
    /\ UNCHANGED <<ltime, global_limit, lwake>>
    /\ UNCHANGED <<monVars, rpcVars, trkVars, schVars, curVars, pairVars, bscVars>>

\* a ninth of a second passes; a sleep that is over ends first
LTick ==
    /\ ltime < MaxTicks
    /\ lpc # "idle" => lwake > ltime
    /\ ltime' = ltime + 1
    /\ UNCHANGED <<global_limit, user_limit, lpc, lwake, last_grant, gap>>
    /\ UNCHANGED <<monVars, rpcVars, trkVars, schVars, curVars, pairVars, bscVars>>

-----------------------------------------------------------------------------
(* The block scan of the BSC watcher *)

\* start_block of line 70
start_block(last, current) == Max(last + 1, current - ScanWindow)

\* range(start_block, current_block + 1) of line 72
scan_range(last, current) == start_block(last, current)..current

InitBsc ==
    /\ current_block = 1
    /\ last_block = 0
    /\ fetched = {}

\* the chain gets a block
NewBlock ==
    /\ current_block < MaxHeight
    /\ current_block' = current_block + 1
    /\ UNCHANGED <<last_block, fetched>>
    /\ UNCHANGED <<monVars, rpcVars, trkVars, schVars, curVars, pairVars, limVars>>

\* BSCWatcher.poll_new_transactions, the read of the height having returned: the
\* first run sets the cursor and returns; a later one fetches the blocks of its
\* range, those of `failed` raising at get_block (logged, line 104, and passed
\* over), and sets the cursor to the height read. A poll whose read of the
\* height raises changes nothing (line 113).
PollBlocks(failed) ==
    /\ IF last_block = 0
       THEN /\ failed = {}
            /\ last_block' = current_block
            /\ UNCHANGED fetched
       ELSE /\ failed \subseteq scan_range(last_block, current_block)
            /\ fetched' = fetched \cup (scan_range(last_block, current_block) \ failed)
            /\ last_block' = current_block
    /\ UNCHANGED current_block
    /\ UNCHANGED <<monVars, rpcVars, trkVars, schVars, curVars, pairVars, limVars>>

\* the process is told to stop (SIGINT): PollingScheduler has no stop method and
\* _run_watcher loops `while True`, so what ends the loops is asyncio.run() cancelling
\* main(): the gather and every watcher task are cancelled where they are, a
\* CancelledError raised at the await (or a KeyboardInterrupt in the synchronous
\* call) the tick is in; what is left of a batch is not enqueued
Shutdown ==
    /\ mainpc = "running"
    /\ mainpc' = "stopped"
    /\ wpc' = [w \in Watchers |-> IF wpc[w] = "failed" THEN "failed" ELSE "cancelled"]
    /\ batch' = [w \in Watchers |-> <<>>]
    /\ blocked' = "none"
    /\ UNCHANGED collected
    /\ UNCHANGED <<monVars, rpcVars, trkVars, extVars>>

-----------------------------------------------------------------------------
(* Specifications *)

Init == InitMonitor /\ InitRpc /\ InitTracker /\ InitScheduler /\ InitCursor /\ InitPair
        /\ InitLimiter /\ InitBsc

NextMonitor ==
    \/ \E h \in Followed, u \in Users : Track(h, u)
    \/ TickStart
    \/ CheckTransaction
    \/ TickCommit

NextRpc ==
    \/ StartCall
    \/ ConsiderNode
    \/ \E ok \in BOOLEAN : Attempt(ok)
    \/ Backoff
    \/ AllNodesFailed
    \/ AdvanceTime

NextTracker ==
    \/ EvmStatusCall
    \/ Cf20StatusCall
    \/ StatusReturn

NextScheduler ==
    \/ \E w \in Watchers : Poll(w)
    \/ \E w \in Watchers : RpcReturns(w)
    \/ \E w \in Watchers : Collect(w)
    \/ \E w \in Watchers : Enqueue(w)
    \/ \E w \in Watchers, ok \in BOOLEAN : Publish(w, ok)
    \/ \E w \in Watchers : Sleep(w)
    \/ \E w \in Watchers : Wake(w)
    \/ MainRaises

NextCursor == NewTransactions \/ PollNewTransactions

NextPair ==
    \/ \E c \in Callers : CEnter(c)
    \/ \E c \in Callers, ok \in BOOLEAN : CReturn(c, ok)
    \/ \E c \in Callers : CWake(c)
    \/ CTick

NextLimiter == Acquire \/ UserWake \/ LTick

NextBsc ==
    \/ NewBlock
    \/ \E failed \in SUBSET (1..MaxHeight) : PollBlocks(failed)

Next == NextMonitor \/ NextRpc \/ NextTracker \/ NextScheduler \/ Restart
           \/ CheckTransactionFails \/ TickRaises \/ Shutdown \/ NextCursor \/ NextPair
           \/ NextLimiter \/ GlobalWake \/ NextBsc

\* the monitor, the repository and /track, the RPC manager left alone
SpecMonitor == Init /\ [][NextMonitor]_vars

\* the RPC manager, the monitor left alone
SpecRpc == Init /\ [][NextRpc]_vars

\* the RPC manager where what is awaited comes back: func returns or raises, a sleep
\* ends, and the code between two awaits runs
SpecRpcFair ==
    /\ Init
    /\ [][NextRpc]_vars
    /\ WF_vars(ConsiderNode)
    /\ WF_vars(\E ok \in BOOLEAN : Attempt(ok))
    /\ WF_vars(Backoff)
    /\ WF_vars(AllNodesFailed)

\* the monitor with a user who only starts tracking: /track creates records and never
\* comes back to one
NextScenario ==
    \/ \E h \in Followed, u \in Users : ~db[h].tracked /\ Track(h, u)
    \/ TickStart
    \/ CheckTransaction
    \/ TickCommit

SpecScenario == Init /\ [][NextScenario]_vars

\* the monitor and /track, the loop of TransactionMonitor.start never stopping:
\* a tick that can start starts, a check or a commit that can run runs
SpecMonitorFair ==
    /\ SpecMonitor
    /\ WF_vars(TickStart)
    /\ WF_vars(CheckTransaction)
    /\ WF_vars(TickCommit)

\* status queries alone
SpecTracker == Init /\ [][NextTracker]_vars

\* the watcher service alone
SpecScheduler == Init /\ [][NextScheduler]_vars

\* the CF-20 watcher's polls for new transactions
SpecCursor == Init /\ [][NextCursor]_vars

\* the rate limiter asked for permissions to send to one user; the global bucket,
\* refilled by 25 tokens a second, never runs dry under one user's messages
SpecLimiter == Init /\ [][NextLimiter]_vars

\* the BSC watcher polled for ever by the scheduler (_run_watcher, `while True`)
SpecBsc ==
    /\ Init
    /\ [][NextBsc]_vars
    /\ WF_vars(\E failed \in SUBSET (1..MaxHeight) : PollBlocks(failed))

\* two tasks calling one RPC manager, the rest left alone
SpecPair == Init /\ [][NextPair]_vars

\* the watcher service and the shutdown of its process
NextShutdown == NextScheduler \/ Shutdown

SpecShutdown == Init /\ [][NextShutdown]_vars

\* the scenario with a monitor process that can stop inside a tick and be restarted
NextRestart ==
    \/ \E h \in Followed, u \in Users : ~db[h].tracked /\ Track(h, u)
    \/ TickStart
    \/ CheckTransaction
    \/ TickCommit
    \/ Restart

SpecRestart == Init /\ [][NextRestart]_vars

\* the monitor with two records, each tracked while its transaction was not mined
\* yet, and with exceptions: inside _check_transaction and out of a tick
NextItems ==
    \/ \E h \in {"h1", "h2"}, u \in Users :
            ~db[h].tracked /\ Track(h, u) /\ db'[h].block_number = None
    \/ TickStart
    \/ CheckTransaction
    \/ CheckTransactionFails
    \/ TickCommit
    \/ TickRaises

SpecItems == Init /\ [][NextItems]_vars

\* the monitor with more unconfirmed records than list_pending returns: three
\* records, each tracked once while its transaction was not mined yet
NextBacklog ==
    \/ \E h \in Hashes, u \in Users :
            ~db[h].tracked /\ Track(h, u) /\ db'[h].block_number = None
    \/ TickStart
    \/ CheckTransaction
    \/ TickCommit

SpecBacklog == Init /\ [][NextBacklog]_vars

Spec == Init /\ [][Next]_vars

-----------------------------------------------------------------------------
(* Properties of the confirmation monitor *)

\* the requests made for a hash, in order
SentFor(h) == SelectSeq(sent, LAMBDA e : e.hash = h)

\* the confirmations the monitor stored for a hash, update by update
ObsFor(h) ==
    LET mine == SelectSeq(obs, LAMBDA e : e[1] = h)
    IN  [i \in 1..Len(mine) |-> mine[i][2]]

\* what a request says: its kind, the confirmations and the percentage shown
Said(e) == <<e.kind, e.confirmations, e.percent>>

SaidFor(h) == [i \in 1..Len(SentFor(h)) |-> Said(SentFor(h)[i])]

Terminal == {"confirmed", "failed"}

\* a step taken by the monitor (every one moves pcMon or idx; /track moves neither)
MonitorStep == pcMon' # pcMon \/ idx' # idx

\* C1: from any state the monitor can be in, two successive invocations of
\* _send_confirmation_notification for a tracked record not yet notified, both
\* deliveries returning, make exactly one send_message_safe call.
C1_TwoInvocationsOneRequest ==
    \A h \in Hashes :
        (db[h].tracked /\ <<h, db[h].owner>> \notin redis) =>
            LET ns0 == [redis |-> redis, sent |-> sent]
                ns1 == send_confirmation_notification(redisOn, ns0, h, db[h], 12, "returned")
                ns2 == send_confirmation_notification(redisOn, ns1, h, db[h], 12, "returned")
            IN  Len(ns2.sent) = Len(sent) + 1

\* C2: a monitor tick never lowers the stored confirmations of a record that is
\* not terminal, whatever the tracker read.
C2_ConfirmationsNeverDecrease ==
    [][(pcMon = "checking" /\ pcMon' = "idle") =>
        \A h \in Hashes :
            (db[h].tracked /\ db[h].status \notin Terminal) =>
                db'[h].confirmations >= db[h].confirmations]_vars

\* C3: once a record's status is confirmed or failed, no step (monitor tick or
\* /track) changes its status or its confirmations.
C3_TerminalIsFinal ==
    [][\A h \in Hashes :
        (db[h].tracked /\ db[h].status \in Terminal) =>
            /\ db'[h].status = db[h].status
            /\ db'[h].confirmations = db[h].confirmations]_vars

\* a tick has committed the record as confirmed and requested the "confirmed"
\* notification, and that tick is over
ConfirmedAndNotified(h) ==
    /\ db[h].tracked
    /\ db[h].confirmed
    /\ \E i \in 1..Len(sent) : sent[i].hash = h /\ sent[i].kind = "confirmed"
    /\ h \notin Range(pending_txs)

\* C4: after a tick stored a record as confirmed and requested the confirmed
\* notification, no later tick lists the hash, writes its row or requests a
\* notification for it.
C4_NothingAfterConfirmed ==
    [][\A h \in Hashes :
        ConfirmedAndNotified(h) =>
            /\ h \notin Range(pending_txs')
            /\ SentFor(h)' = SentFor(h)
            /\ (MonitorStep => db'[h] = db[h])]_vars

\* C4 witness: a later tick runs while the record is confirmed and notified, its
\* status put back to pending by /track
C4_Witness ==
    /\ ConfirmedAndNotified("h1")
    /\ pcMon = "checking"
    /\ db["h1"].status = "pending"

Milestones12 == <<3, 6, 9, 12>>

\* C9: when the first update of a record (stored 0, required 12) jumps over several
\* milestones, every milestone up to the value read is requested once, ascending,
\* in that tick.
C9_CoarsePollingFiresAll ==
    \A h \in Hashes :
        (/\ db[h].tracked
         /\ db[h].confirmations_required = 12
         /\ h \notin unchained
         /\ Len(ObsFor(h)) = 1) =>
            [i \in 1..Len(SentFor(h)) |-> SentFor(h)[i].confirmations]
                = SelectSeq(Milestones12, LAMBDA m : m <= ObsFor(h)[1])

\* C10: tick 1 (not mined) leaves the record pending with 0 confirmations; tick 2
\* (6 confirmations) stores 6 and status confirming and requests the 50% progress
\* once; tick 3 (12 confirmations) stores 12 and status confirmed and requests the
\* confirmed notification once.
C10_EndToEnd ==
    \A h \in Hashes :
        (/\ db[h].tracked
         /\ db[h].confirmations_required = 12
         /\ h \notin unchained
         /\ pcMon = "idle") =>
            /\ ObsFor(h) = <<0>> =>
                    /\ db[h].confirmations = 0
                    /\ db[h].status = "pending"
                    /\ SaidFor(h) = <<>>
            /\ ObsFor(h) = <<0, 6>> =>
                    /\ db[h].confirmations = 6
                    /\ db[h].status = "confirming"
                    /\ SaidFor(h) = << <<"progress", 6, 50>> >>
            /\ ObsFor(h) = <<0, 6, 12>> =>
                    /\ db[h].confirmations = 12
                    /\ db[h].status = "confirmed"
                    /\ SaidFor(h) = << <<"progress", 6, 50>>, <<"confirmed", 12, 100>> >>

\* two requests are for the same milestone of the same (hash, owner)
SameMilestone(e, f) ==
    /\ e.hash = f.hash
    /\ e.user = f.user
    /\ e.kind = f.kind
    /\ e.confirmations = f.confirmations

\* the monitor is about to check h and the row it loaded is stale: it does not hold
\* the confirmations the monitor's latest update of h stored (that tick never
\* committed)
StaleCheck(h) ==
    /\ pcMon = "checking"
    /\ idx <= Len(pending_txs)
    /\ pending_txs[idx] = h
    /\ h \in {e[1] : e \in Range(obs)}
    /\ sess[h].confirmations # LastStored(obs, h)

\* C11: a check that re-reads a record left stale by a tick that requested a
\* notification and never committed requests no milestone already requested for
\* the same (hash, owner).
C11_ResumableNotifications ==
    [][\A h \in Hashes :
        StaleCheck(h) =>
            \A i \in (Len(sent) + 1)..Len(sent') :
                \A j \in 1..Len(sent) : ~SameMilestone(sent[j], sent'[i])]_vars

\* the chain that is not the record's
OtherChain(chain) == IF chain = "ethereum" THEN "bsc" ELSE "ethereum"

Requested(h, kind) == \E i \in 1..Len(sent) : sent[i].hash = h /\ sent[i].kind = kind

\* C13: once a tick in which the tracker reported the transaction as mined with a
\* failed (reverted) receipt is over, the record's status is failed, the "failed"
\* notification has been requested, and neither the status is confirmed nor the
\* "confirmed" notification requested.
C13_FailureIsTerminal ==
    \A h \in reverted :
        pcMon = "idle" =>
            /\ db[h].status = "failed"
            /\ Requested(h, "failed")
            /\ db[h].status # "confirmed"
            /\ ~Requested(h, "confirmed")

\* the part of C13 about confirmation alone: a transaction reported reverted is never
\* stored as confirmed nor notified as confirmed
RevertedNeverConfirmed ==
    \A h \in reverted :
        pcMon = "idle" => (db[h].status # "confirmed" /\ ~Requested(h, "confirmed"))

\* C14: whatever the tracker reads in the successive ticks, no progress milestone is
\* requested twice for the same (hash, owner).
C14_ProgressAtMostOnce ==
    \A i, j \in 1..Len(sent) :
        (i < j /\ sent[i].kind = "progress") => ~SameMilestone(sent[i], sent[j])

\* C15: from the first monitor check in which the tracker reported exists=True for
\* a record on, the "first-seen" notification has been requested exactly once for it.
C15_FirstSeenOnce ==
    \A h \in Hashes :
        ObsFor(h) # <<>> =>
            Cardinality({i \in 1..Len(sent) :
                            sent[i].hash = h /\ sent[i].kind = "first-seen"}) = 1

CheckOfUpdated(h) ==
    /\ pcMon = "checking"
    /\ idx <= Len(pending_txs)
    /\ pending_txs[idx] = h
    /\ ObsFor(h) # <<>>
    /\ sess[h].confirmations = LastStored(obs, h)

\* the confirmed notification of h was requested and its delivery or the marking of
\* its key failed: Redis is configured and the key is not set
ConfirmedUnmarked(h) ==
    /\ redisOn
    /\ Requested(h, "confirmed")
    /\ <<h, db[h].owner>> \notin redis

\* C21: the commit at the end of a tick writes the confirmations the tick's updates
\* stored, whatever became of the tick's notifications and of the dedup store; and a
\* later check, from the record so updated, requests neither a milestone for the
\* confirmations the record already holds nor a second "confirmed".
C21_FailedNotificationKeepsUpdate ==
    [][/\ (pcMon = "checking" /\ pcMon' = "idle") =>
            \A h \in Range(pending_txs) :
                /\ db'[h].confirmations = sess[h].confirmations
                /\ db'[h].confirmed = sess[h].confirmed
       /\ \A h \in Hashes :
            CheckOfUpdated(h) =>
                \A i \in (Len(sent) + 1)..Len(sent') :
                    /\ sent'[i].confirmations # LastStored(obs, h)
                    /\ sent'[i].kind = "confirmed" => ~Requested(h, "confirmed")]_vars

\* C21 witness: the delivery of the confirmed notification (or the setex after it)
\* failed, the tick committed the record as confirmed, and a later tick is running
C21_Witness ==
    /\ ConfirmedUnmarked("h1")
    /\ db["h1"].confirmed
    /\ db["h1"].confirmations = 12
    /\ pcMon = "checking"


-----------------------------------------------------------------------------
(* Properties of the status queries *)

\* one of the RPC reads the query made did not succeed
ReadFailed(q) ==
    IF q.tracker = "evm"
    THEN \/ q.reads.lookup = "error"
         \/ /\ q.reads.lookup = "mined"
            /\ \/ q.reads.refetch = "error"
               \/ q.reads.refetch = "mined" /\ q.reads.head = HeadFail
               \/ q.reads.receipt = "error"
    ELSE \/ q.reads.mempool = "raised"
         \/ q.reads.mempool = "out" /\ q.reads.history = "raised"

\* C16: a status query always returns a status, and when one of the RPC reads it made
\* failed the status returned carries an error.
C16_TrackerErrorsAreValues ==
    /\ query.pc \in {"idle", "called", "returned"}
    /\ (query.pc = "returned" /\ ReadFailed(query)) => query.status.error # "none"

\* the reads of an EVM status query returned and show a mined transaction
MinedRead(q) ==
    /\ q.tracker = "evm"
    /\ q.reads.lookup = "mined"
    /\ q.reads.refetch = "mined"
    /\ q.reads.head # HeadFail

\* the part of C27 that holds, for the queries every read of which returned:
\* the EVM status of a transaction without block height is exists, pending, 0
\* confirmations; of a mined one the confirmations are
\* max(0, head - block + 1); they are never negative, and confirmed is true exactly
\* when they are at least confirmations_required.
C27_EvmStatus ==
    (query.pc = "returned" /\ query.tracker = "evm") =>
        /\ query.status.confirmations >= 0
        /\ query.status.confirmed <=> (query.status.confirmations >= 12)
        /\ query.reads.lookup = "pending" =>
                /\ query.status.exists
                /\ query.status.pending
                /\ query.status.confirmations = 0
                /\ query.status.block_number = None
        /\ MinedRead(query) =>
                /\ query.status.exists
                /\ ~query.status.pending
                /\ query.status.block_number = TxBlock
                /\ query.status.confirmations =
                        IF query.reads.head - TxBlock + 1 > 0
                        THEN query.reads.head - TxBlock + 1 ELSE 0

\* C27 witness: the status of a mined transaction returned by a node whose head is
\* two blocks behind the transaction's block
C27_Witness ==
    /\ query.pc = "returned"
    /\ MinedRead(query)
    /\ query.reads.head = TxBlock - 2
    /\ query.status.confirmations = 0

\* a CF-20 status query has returned
Cf20Returned == query.pc = "returned" /\ query.tracker = "cf20"

\* the history read returned an entry whose status is neither accepted nor declined
OtherStatus(q) == q.reads.history \notin {"raised", "empty", "accepted", "declined"}

\* C28: a hash in the mempool is reported pending whatever the history holds;
\* otherwise the status of the history entry is mapped accepted -> confirmed,
\* declined -> failed (error set, neither confirmed nor pending), anything else ->
\* pending; a hash in neither place is reported as not existing.
C28_LedgerStatus ==
    Cf20Returned =>
        /\ query.reads.mempool = "in" =>
                /\ query.status = [NoAnswer EXCEPT !.exists = TRUE, !.pending = TRUE]
                /\ query.word = "pending"
        /\ (query.reads.mempool = "out" /\ query.reads.history = "accepted") =>
                /\ query.status = [NoAnswer EXCEPT !.exists = TRUE, !.confirmed = TRUE]
                /\ query.word = "confirmed"
        /\ (query.reads.mempool = "out" /\ query.reads.history = "declined") =>
                /\ query.status.exists
                /\ query.status.error # "none"
                /\ ~query.status.confirmed
                /\ ~query.status.pending
                /\ query.word = "error"
        /\ (query.reads.mempool = "out" /\ OtherStatus(query)) =>
                /\ query.status = [NoAnswer EXCEPT !.exists = TRUE, !.pending = TRUE]
                /\ query.word = "pending"
        /\ (query.reads.mempool = "out" /\ query.reads.history = "empty") =>
                /\ query.status = NoAnswer
                /\ query.word = "none"

\* C27 as stated, for whatever the reads did: the status of a transaction the
\* lookup shows mined has confirmations max(0, head - block + 1).
C27_EvmStatusAlways ==
    (query.pc = "returned" /\ query.tracker = "evm" /\ query.reads.lookup = "mined"
        /\ query.reads.head # HeadFail) =>
        query.status.confirmations =
            IF query.reads.head - TxBlock + 1 > 0
            THEN query.reads.head - TxBlock + 1 ELSE 0

-----------------------------------------------------------------------------
(* Properties of the watchers and the scheduler *)

\* what a poll contributes to the batch: nothing when it raised
Contribution(out) == IF out.raised THEN <<>> ELSE out.data

\* C17: collect() returns whatever its two polls do, and its batch is what the polls
\* that returned gave, a poll that raised giving nothing.
C17_CollectNeverRaises ==
    collected.watcher # "none" =>
        /\ ~collected.result.raised
        /\ collected.result.data =
                Contribution(collected.new) \o Contribution(collected.mem)

\* C17 witness: poll_new_transactions raised and the batch is poll_mempool's event
C17_Witness ==
    /\ collected.watcher = "cf20"
    /\ collected.new.raised
    /\ collected.mem.data = <<"mempool">>
    /\ wpc["cf20"] = "publish"
    /\ batch["cf20"] = <<"mempool">>

\* C18: whatever happens in the loop of one watcher, the loops of the others are
\* neither cancelled nor otherwise stopped.
C18_SiblingIsolation ==
    \A w \in Watchers : wpc[w] # "cancelled"

\* watcher w is inside a call of its tick that has not returned: its polls, or the
\* enqueue of an event
Waiting(w) == wpc[w] = "polling" \/ (wpc[w] = "publish" /\ blocked = w)

\* the task of watcher v is not over
Alive(v) == mainpc = "running" /\ wpc[v] \in {"collect", "polling", "publish", "sleep"}

\* the loop can run the next step of watcher v's task
CanRun(v) ==
    ENABLED (\/ Poll(v)
             \/ RpcReturns(v)
             \/ Collect(v)
             \/ Enqueue(v)
             \/ \E ok \in BOOLEAN : Publish(v, ok)
             \/ Sleep(v)
             \/ Wake(v))

\* C29: while a watcher waits for an RPC response or for the event sink, the task of
\* every other watcher can take its next step.
C29_NoHeadOfLineBlocking ==
    \A w \in Watchers : \A v \in Watchers \ {w} :
        (Waiting(w) /\ Alive(v)) => CanRun(v)

\* the step is watcher w's collect() returning the batch of a tick
CollectStep(w) == wpc[w] = "polling" /\ wpc'[w] \in {"publish", "failed"}

\* C30: a watcher starts a tick only from its sleep, which it enters only when the
\* batch of the tick before is all forwarded; the batch of a tick is the
\* new-transaction events followed by the mempool events, and it is forwarded head
\* first, one event a step.
C30_SequentialTicks ==
    [][\A w \in Watchers :
        /\ (wpc[w] # "collect" /\ wpc'[w] = "collect") =>
                (wpc[w] = "sleep" /\ batch[w] = <<>>)
        /\ (wpc[w] # "polling" /\ wpc'[w] = "polling") =>
                (wpc[w] = "collect" /\ batch[w] = <<>>)
        /\ (wpc[w] # "sleep" /\ wpc'[w] = "sleep") =>
                (wpc[w] = "publish" /\ batch[w] = <<>>)
        /\ CollectStep(w) =>
                /\ batch[w] = <<>>
                /\ collected'.watcher = w
                /\ batch'[w] = Contribution(collected'.new) \o Contribution(collected'.mem)
                /\ \A i \in 1..Len(batch'[w]) : \A j \in 1..Len(batch'[w]) :
                        (batch'[w][i] = "transaction" /\ batch'[w][j] = "mempool") => i < j
        /\ (~CollectStep(w) /\ batch'[w] # batch[w]) =>
                \/ batch'[w] = Tail(batch[w]) /\ wpc[w] = "publish" /\ wpc'[w] = "publish"
                \/ batch'[w] = <<>> /\ wpc'[w] \in {"failed", "cancelled"}]_vars

\* C30 witness: the two events of a tick were forwarded and the watcher sleeps
\* before its next tick
C30_Witness ==
    /\ collected.watcher = "cf20"
    /\ collected.result.data = <<"transaction", "mempool">>
    /\ wpc["cf20"] = "sleep"
    /\ batch["cf20"] = <<>>

\* watcher w is inside a tick: its polls are running or its batch is being forwarded
InTick(w) == wpc[w] = "polling" \/ (wpc[w] = "publish" /\ batch[w] # <<>>)

\* C31: when the shutdown is requested, a watcher that is inside a tick goes on with
\* it (its polls return, every event of its batch is forwarded) before its loop ends,
\* and no watcher starts a tick afterwards.
C31_CooperativeShutdown ==
    [][/\ (mainpc = "running" /\ mainpc' = "stopped") =>
            \A w \in Watchers : InTick(w) => (wpc'[w] = wpc[w] /\ batch'[w] = batch[w])
       /\ mainpc = "stopped" =>
            \A w \in Watchers : wpc'[w] = "polling" => wpc[w] = "polling"]_vars

\* the record of h is stored and not in a terminal state
NonTerminal(h) == db[h].tracked /\ ~db[h].confirmed

\* C32: the list a tick works on holds every stored record that is not in a
\* terminal state, however many there are, and the tick checks each of them.
C32_EveryRecordEveryTick ==
    [][/\ (pcMon = "idle" /\ pcMon' = "checking") =>
            \A h \in Hashes : NonTerminal(h) => h \in Range(pending_txs')
       /\ (pcMon = "checking" /\ pcMon' = "idle") => idx > Len(pending_txs)]_vars

\* the step is a check that stored nothing: the record's chain has a tracker, and
\* the tracker reported the transaction as not existing (its lookup raised)
NotFoundStep ==
    /\ pcMon = "checking"
    /\ idx' = idx + 1
    /\ sess[pending_txs[idx]].chain \in trackers
    /\ obs' = obs

\* C33: a check that finds the transaction not existing changes nothing of the
\* record in the tick's session, requests nothing and sets no Redis key; the commit
\* of the tick leaves the stored row of a record it did not update as it is, so the
\* record stays non-terminal and in the list of the later ticks.
C33_NotFoundRecoverable ==
    [][/\ NotFoundStep =>
            /\ sess' = sess
            /\ dirty' = dirty
            /\ sent' = sent
            /\ redis' = redis
            /\ db' = db
       /\ (pcMon = "checking" /\ pcMon' = "idle") =>
            \A h \in Hashes :
                dirty[h] = {} =>
                    /\ db'[h] = db[h]
                    /\ NonTerminal(h) => h \in Range(list_pending(db', created'))]_vars

\* C33 witness: a record updated to 3 confirmations by an earlier tick has just been
\* checked by a tick that found it not existing: nothing of it is changed
C33_Witness ==
    /\ pcMon = "checking"
    /\ pending_txs = <<"h1">>
    /\ idx = 2
    /\ dirty["h1"] = {}
    /\ ObsFor("h1") = <<3>>
    /\ SaidFor("h1") = << <<"progress", 3, 25>> >>
    /\ sess["h1"].confirmations = 3
    /\ ~sess["h1"].confirmed

\* the hashes of the last n events emitted
LastEmitted(n) ==
    {emitted[i] : i \in {j \in 1..Len(emitted) : j > Len(emitted) - n}}

\* C34: the cache of emitted hashes never holds more than its cap, the hashes emitted
\* last are in it, and no hash is emitted twice.
C34_SeenCache ==
    /\ Cardinality(seen_tx_hashes) <= SeenCap
    /\ LastEmitted(SeenKeep) \subseteq seen_tx_hashes
    /\ \A i \in 1..Len(emitted) : \A j \in 1..Len(emitted) :
            emitted[i] = emitted[j] => i = j

-----------------------------------------------------------------------------
(* Properties of the RPC manager *)

\* the derived circuit state "open": at or over the threshold, cooldown not elapsed
IsOpen(n) ==
    /\ nodes[n].failures >= circuit_breaker_threshold
    /\ now - nodes[n].last_failure <= circuit_breaker_timeout

\* the step is one attempt against endpoint n
AttemptStep(n) == call.pc = "attempt" /\ call.node = n /\ call'.pc # "attempt"

C6_CircuitBreaker ==
    [][\A n \in NodeIds :
        /\ AttemptStep(n) => ~IsOpen(n)
        /\ (call.probe[n] /\ AttemptStep(n) /\ call'.pc # "returned") =>
                call'.pc = "consider"
        /\ (call.probe[n] /\ call.log[n] = "none" /\ call'.log[n] = "failed") =>
                IsOpen(n)']_vars

\* C7: a failure counter at or over the threshold goes back to 0 only in a step
\* that is a successful attempt against that endpoint.
C7_ResetOnlyOnSuccess ==
    [][\A n \in NodeIds :
        (nodes[n].failures >= circuit_breaker_threshold /\ nodes'[n].failures = 0) =>
            (AttemptStep(n) /\ call'.pc = "returned" /\ call'.result = n)]_vars

\* C19: a call that ends with every endpoint skipped or exhausted raises one error
\* that shows the last error of each endpoint exhausted in the call, and has made
\* no attempt against, and left the counter of, each endpoint it skipped.
C19_AggregatedError ==
    call.pc = "raised" =>
        /\ \A n \in NodeIds : call.log[n] \in {"skipped", "failed"}
        /\ call.error = {n \in NodeIds : call.log[n] = "failed"}
        /\ \A n \in NodeIds :
                call.log[n] = "skipped" => nodes[n].failures = call.start[n]

\* the part of C19 about skipped endpoints
SkippedUntouched ==
    \A n \in NodeIds :
        (call.pc \in {"raised", "returned"} /\ call.log[n] = "skipped") =>
            nodes[n].failures = call.start[n]

\* the step is the last failed attempt against endpoint n: its retries are exhausted
ExhaustStep(n) == AttemptStep(n) /\ call'.log[n] = "failed"

\* the step is a successful attempt
SuccessStep == call.pc = "attempt" /\ call'.pc = "returned"

\* a call is in progress
InCall == call.pc \in {"consider", "attempt", "backoff"}

\* C22: an attempt is made against an endpoint only when every endpoint before it
\* in priority order was, in this call, skipped or exhausted (max_retries failed
\* attempts), and never against an endpoint that is open.
C22_PriorityOrder ==
    [][\A n \in NodeIds :
        /\ AttemptStep(n) =>
                /\ \A m \in NodeIds : m < n => call.log[m] \in {"skipped", "failed"}
                /\ ~IsOpen(n)
        /\ ExhaustStep(n) => call.attempt = max_retries - 1
        /\ (call.pc = "consider" /\ call.node = n /\ IsOpen(n)) =>
                (call'.pc = "consider" /\ (call'.node = n + 1 \/ call' = call))]_vars

\* C22 witness: endpoint 1 was skipped as open, endpoint 2 exhausted, and endpoint 3
\* is being attempted
C22_Witness ==
    /\ call.pc = "attempt"
    /\ call.node = 3
    /\ call.log[1] = "skipped"
    /\ call.log[2] = "failed"

\* C23: an endpoint gets at most max_retries attempts in a call; a failed attempt
\* that is not the last leaves every counter alone; the last one adds exactly 1 to
\* the endpoint's counter and sets its last_failure to the current time.
C23_CountedOncePerExhaustion ==
    [][\A n \in NodeIds :
        /\ AttemptStep(n) => call.attempt < max_retries
        /\ (AttemptStep(n) /\ call'.pc = "backoff") => nodes' = nodes
        /\ ExhaustStep(n) =>
                /\ nodes'[n].failures = nodes[n].failures + 1
                /\ nodes'[n].last_failure = now
                /\ \A m \in NodeIds \ {n} : nodes'[m] = nodes[m]]_vars

\* C23 witness: endpoint 1, exhausted in an earlier call, has just been exhausted again
C23_Witness ==
    /\ call.pc = "consider"
    /\ call.log[1] = "failed"
    /\ call.start[1] = 1
    /\ nodes[1].failures = 2

\* C24: the wait after failed attempt 0 is 1 s and after failed attempt 1 is 2 s
\* (min(retry_delay * 2^k, max_retry_delay)); the last failed attempt on an endpoint
\* goes on to the next endpoint without a wait, and so does the availability check
\* to the first attempt.
C24_Backoff ==
    [][/\ (call.pc = "backoff" /\ call'.pc # "backoff") =>
            /\ call.attempt = 0 => now' - now = 1
            /\ call.attempt = 1 => now' - now = 2
            /\ call.attempt \in {0, 1}
            /\ now' - now <= max_retry_delay
       /\ \A n \in NodeIds :
            /\ ExhaustStep(n) => (call'.pc = "consider" /\ now' = now)
            /\ (AttemptStep(n) /\ call'.pc = "backoff") => call.attempt < max_retries - 1
       /\ (call.pc = "consider" /\ call'.pc # "consider") =>
            (call'.pc \in {"attempt", "raised"} /\ now' = now)]_vars

\* C24 witness: the second wait on an endpoint is over
C24_Witness ==
    /\ call.pc = "attempt"
    /\ call.attempt = 2
    /\ call.node = 2

\* C25: a successful attempt ends the call with that endpoint's result, sets that
\* endpoint's counter to 0 and changes nothing else of any endpoint; no attempt
\* follows until the next call; and no step of a call touches an endpoint the call
\* has not reached.
C25_FirstSuccessWins ==
    [][/\ SuccessStep =>
            /\ call'.result = call.node
            /\ nodes'[call.node].failures = 0
            /\ nodes'[call.node].last_failure = nodes[call.node].last_failure
            /\ \A m \in NodeIds \ {call.node} : nodes'[m] = nodes[m]
       /\ call.pc = "returned" =>
            /\ nodes' = nodes
            /\ call'.pc \in {"returned", "consider"}
            /\ call'.pc = "consider" => call'.attempts = 0
       /\ InCall => \A m \in NodeIds : m > call.node => nodes'[m] = nodes[m]]_vars

\* C25 witness: endpoint 2, which had failed before, succeeded after endpoint 1 was
\* exhausted; endpoint 3, not reached, keeps the failure it had
C25_Witness ==
    /\ call.pc = "returned"
    /\ call.result = 2
    /\ call.start[2] > 0
    /\ call.log[3] = "none"
    /\ nodes[3].failures > 0

\* C26: a call never makes more than len(nodes) * max_retries attempts, and a call
\* in progress comes to its end: it returns or raises (or the clock of the model
\* stops in the middle of a wait).
C26_Terminates ==
    /\ [](call.attempts <= NumNodes * max_retries)
    /\ (InCall ~> (\/ call.pc \in {"returned", "raised"}
                   \/ call.pc = "backoff" /\ now + backoff_delay(call.attempt) > MaxTime))

\* C26 witness: a call raised after len(nodes) * max_retries attempts
C26_Witness ==
    /\ call.pc = "raised"
    /\ call.attempts = NumNodes * max_retries

-----------------------------------------------------------------------------
(* Properties of two tasks calling one RPC manager *)

\* C35: the failure counter of the endpoint equals the number of exhaustions
\* recorded since the last recorded success, however the two calls interleave
C35_NoLostCounterUpdates == shared.failures = exhausted

\* task c starts an attempt against the endpoint in this step
StartsAttempt(c) == callers[c].pc # "attempt" /\ callers'[c].pc = "attempt"

\* C36: no attempt is started against the endpoint while its breaker is open, and
\* while the call that found the cooldown over is still in progress no other call
\* starts attempts against the endpoint
C36_BreakerGates ==
    [][\A c \in Callers :
          StartsAttempt(c) =>
              /\ ~is_open(shared, clock)
              /\ callers[c].pc = "idle" => probe = "none"]_vars
-----------------------------------------------------------------------------
(* Consistency of a record *)

\* C37: after any sequence of create and update_status calls, from the monitor and
\* from /track, a record is flagged confirmed exactly when its status is "confirmed",
\* and a record flagged confirmed holds at least the required confirmations
C37_RecordConsistency ==
    \A h \in Hashes :
        db[h].tracked =>
            /\ db[h].confirmed <=> db[h].status = "confirmed"
            /\ db[h].confirmed => db[h].confirmations >= db[h].confirmations_required
-----------------------------------------------------------------------------
(* The owner is told *)

\* the record of h is stored with fewer confirmations than it requires
StoredBelow(h) ==
    db[h].tracked /\ ~db[h].confirmed /\ db[h].confirmations < db[h].confirmations_required

\* a read of the chain that reported the required confirmations has been stored
ChainConfirmed(h) == db[h].tracked /\ db[h].confirmed

\* the monitor has requested the confirmed notification of h for its owner
Told(h) ==
    \E i \in 1..Len(sent) :
        sent[i].hash = h /\ sent[i].user = db[h].owner /\ sent[i].kind = "confirmed"

\* C39: a record stored below its required confirmations, once the chain reports
\* the required confirmations, has its confirmed notification requested by the
\* monitor sooner or later, however ticks and /track commands interleave
C39_OwnerEventuallyTold ==
    \A h \in Followed : [](StoredBelow(h) => [](ChainConfirmed(h) => <>Told(h)))
-----------------------------------------------------------------------------
(* Properties of the rate limiter *)

\* C40: two consecutive grants of acquire(user_id=u) are never less than a second
\* apart, and the tokens of each bucket stay between 0 and max_per_second
C40_PerUserRateLimit ==
    /\ gap >= Second
    /\ user_limit.tokens >= 0 /\ user_limit.tokens <= UserBucket.max
    /\ global_limit.tokens >= 0 /\ global_limit.tokens <= GlobalBucket.max
-----------------------------------------------------------------------------
(* Properties of the BSC block scan *)

\* C38: once the first poll has set the cursor, every block above the cursor and up
\* to the height of the chain is fetched sooner or later, whether a fetch of it
\* failed or the watcher fell more than its window behind
C38_EveryBlockScanned ==
    \A h \in 1..MaxHeight :
        (last_block # 0 /\ last_block < h /\ h <= current_block) ~> (h \in fetched)
====
